---- MODULE Spec2Model ----
(***************************************************************************)
(* Session/timer state machine of the TimeTracker application.             *)
(*                                                                         *)
(* The App component (src/README.md:233-525) owns the React state          *)
(* isRunning, currentSession, timeEntries, elapsedTime, settings and       *)
(* activeTab.  The Timer component (src/src/components/Timer.tsx) is       *)
(* mounted only while activeTab = "timer"; its completion effect runs      *)
(* after every render of the component and calls back into the App         *)
(* handlers.                                                               *)
(*                                                                         *)
(* A handler reads the values captured by the render that created it (its  *)
(* closure) and queues state updates; the updates of one handler are       *)
(* applied together before the next render.  Every handler operator below  *)
(* therefore takes the closure C (the state of the render) and the queue   *)
(* result Q (the state the already queued updates produce).                *)
(***************************************************************************)
EXTENDS Integers, Sequences, FiniteSets, TLC

\* ------------------------------------------------------------------ bounds
MaxNow == 2          \* the clock runs from 0 to MaxNow
MaxEntries == 3      \* a session is created only if its entries keep the list within this length
MaxDuration == 2     \* durations offered to updateSettings: 1 and MaxDuration
MaxNoted == 1        \* notes are typed while fewer entries of the list carry notes
InstantsPerDay == 2  \* clock instants that fall on one calendar day
MaxStored == 2       \* longest stored entry list the Statistics component is given
MaxWorkTime == 23    \* longest work time, in seconds, the score is computed for
MaxBreakTime == 10   \* longest break time, in seconds, the score is computed for

\* --------------------------------------------------------------- constants
UserId == "u1"
Null == [null |-> TRUE]              \* the JavaScript null of currentSession
NullTime == -1                       \* the JavaScript null of endTime
Tabs == {"timer", "statistics", "settings"}
NoteTexts == {"n"}

VARIABLES
    isRunning,       \* App state isRunning
    currentSession,  \* App state currentSession: a TimeEntry or Null
    timeEntries,     \* App state timeEntries: sequence of TimeEntry
    elapsedTime,     \* App state elapsedTime
    settings,        \* App state settings
    activeTab,       \* App state activeTab
    now,             \* the wall clock read by Date.now() / new Date()
    effectPending,   \* the Timer completion effect is scheduled after a render
    interval,        \* the setInterval timer of the App tick effect is installed
    timeRange,       \* Statistics state timeRange
    showBreaks,      \* Statistics state showBreaks
    formState,       \* Settings state formState, Null while the component is unmounted
    localStorage,    \* the items of window.localStorage the App reads and writes
    appStatus,       \* "unmounted", "mounted", or "crashed" when an initializer threw
    runs,            \* the timer state, and the notification of the last step, of the same steps under each notification configuration that is followed
    lastOp,          \* history: the operation that made the last step
    ticks,           \* history: ticks delivered to the current session
    pre              \* history: the timer state before the last step

vars == <<isRunning, currentSession, timeEntries, elapsedTime, settings,
          activeTab, now, effectPending, interval, timeRange, showBreaks,
          formState, localStorage, appStatus, runs, lastOp, ticks, pre>>

\* the state of the Statistics component
statsVars == <<timeRange, showBreaks>>

\* the four pieces of state the timer handlers read and write
St == [isRunning |-> isRunning, currentSession |-> currentSession,
       timeEntries |-> timeEntries, elapsedTime |-> elapsedTime]

\* what the history variable pre remembers of a state
Snapshot == [isRunning |-> isRunning, currentSession |-> currentSession,
             timeEntries |-> timeEntries, elapsedTime |-> elapsedTime,
             ticks |-> ticks]

\* ----------------------------------------------------------------- records
NewEntry(type, t) ==
    [id |-> t, startTime |-> t, endTime |-> NullTime, duration |-> 0,
     type |-> type, notes |-> "", userId |-> UserId]

\* the settings of a first load, on a host whose colour scheme is light
DefaultSettings ==
    [workDuration |-> 25 * 60, breakDuration |-> 5 * 60,
     autoStartBreaks |-> FALSE,
     autoStartWork |-> FALSE, notifications |-> TRUE, darkMode |-> FALSE,
     userId |-> UserId]

\* ------------------------------------------------------------ localStorage
\* A value of a time field is modelled by an integer: a Date by its instant
\* t >= 0, null by NullTime, and the ISO-8601 string of the instant t by
\* -(t + 2).
isDate(x) == x >= 0
toISOString(t) == -(t + 2)

\* new Date(value): the Date itself, or the Date an ISO-8601 string parses to
newDate(x) == IF isDate(x) THEN x ELSE -(x + 2)

\* Date.prototype.toJSON as JSON.stringify applies it to a field value
toJSON(x) == IF isDate(x) THEN toISOString(x) ELSE x

\* An item of localStorage is Null when the key is absent, [json |-> v] when
\* the stored string is the JSON text of the value v, and [text |-> s] for a
\* stored string s that is not JSON text.
\* JSON.stringify of a record without Date fields
JSONstringify(value) == [json |-> value]

\* JSON.stringify of an entry list: toJSON is applied to the Date fields
JSONstringifyEntries(entries) ==
    [json |-> [i \in 1..Len(entries) |->
                 [entries[i] EXCEPT !.startTime = toJSON(@),
                                    !.endTime = toJSON(@)]]]

\* JSON.parse throws a SyntaxError on a string that is not JSON text
Throws == [threw |-> "SyntaxError"]
JSONparse(item) == IF DOMAIN item = {"json"} THEN item.json ELSE Throws

EmptyStorage == [userId |-> Null, timeEntries |-> Null, settings |-> Null]

\* the three persistence effects of App, run after a render
persist(storage, entries, s) ==
    [userId |-> IF storage.userId = Null THEN [text |-> UserId]
                ELSE storage.userId,
     timeEntries |-> JSONstringifyEntries(entries),
     settings |-> JSONstringify(s)]

\* the persistence effects of a later render: the effect of the entry list
\* runs when the list has changed, the effect of the settings when they have
\* persistence effects that save the entry list only
saveEffects_entriesOnly(storage, oldEntries, entries, oldSettings, s) ==
    [storage EXCEPT
        !.timeEntries = IF entries # oldEntries
                        THEN JSONstringifyEntries(entries) ELSE @]

saveEffects(storage, oldEntries, entries, oldSettings, s) ==
    [storage EXCEPT
        !.timeEntries = IF entries # oldEntries
                        THEN JSONstringifyEntries(entries) ELSE @,
        !.settings = IF s # oldSettings THEN JSONstringify(s) ELSE @]

\* ---------------------------------------------------------------- handlers
\* stopTimer that forgets to record the elapsed time in the entry
stopTimer_noDuration(C, Q, t) ==
    IF C.currentSession # Null
    THEN [Q EXCEPT
            !.timeEntries = Append(@, [C.currentSession EXCEPT !.endTime = t]),
            !.currentSession = Null,
            !.elapsedTime = 0,
            !.isRunning = FALSE]
    ELSE Q

\* stopTimer that leaves the elapsed time on the display
stopTimer_keepElapsed(C, Q, t) ==
    IF C.currentSession # Null
    THEN [Q EXCEPT
            !.timeEntries = Append(@, [C.currentSession EXCEPT
                                          !.endTime = t,
                                          !.duration = C.elapsedTime]),
            !.currentSession = Null,
            !.isRunning = FALSE]
    ELSE Q

\* stopTimer without the test for a current session
stopTimer_noGuard(C, Q, t) ==
    [Q EXCEPT
        !.timeEntries = Append(@, IF C.currentSession # Null
                                  THEN [C.currentSession EXCEPT
                                           !.endTime = t,
                                           !.duration = C.elapsedTime]
                                  ELSE [endTime |-> t,
                                        duration |-> C.elapsedTime]),
        !.currentSession = Null,
        !.elapsedTime = 0,
        !.isRunning = FALSE]

\* stopTimer that puts the finished entry in front of the list
stopTimer_prepends(C, Q, t) ==
    IF C.currentSession # Null
    THEN [Q EXCEPT
            !.timeEntries = <<[C.currentSession EXCEPT
                                  !.endTime = t,
                                  !.duration = C.elapsedTime]>> \o @,
            !.currentSession = Null,
            !.elapsedTime = 0,
            !.isRunning = FALSE]
    ELSE Q

\* stopTimer that does not set the end time
stopTimer_noEndTime(C, Q, t) ==
    IF C.currentSession # Null
    THEN [Q EXCEPT
            !.timeEntries = Append(@, [C.currentSession EXCEPT
                                          !.duration = C.elapsedTime]),
            !.currentSession = Null,
            !.elapsedTime = 0,
            !.isRunning = FALSE]
    ELSE Q

stopTimer(C, Q, t) ==
    IF C.currentSession # Null
    THEN [Q EXCEPT
            !.timeEntries = Append(@, [C.currentSession EXCEPT
                                          !.endTime = t,
                                          !.duration = C.elapsedTime]),
            !.currentSession = Null,
            !.elapsedTime = 0,
            !.isRunning = FALSE]
    ELSE Q

\* startTimer that creates a session whenever it starts the clock
startTimer_alwaysNew(C, Q, t) ==
    IF ~C.isRunning
    THEN [Q EXCEPT !.isRunning = TRUE, !.currentSession = NewEntry("work", t)]
    ELSE Q

startTimer(C, Q, t) ==
    IF ~C.isRunning
    THEN [Q EXCEPT
            !.isRunning = TRUE,
            !.currentSession = IF C.currentSession = Null
                               THEN NewEntry("work", t) ELSE @]
    ELSE Q

\* pauseTimer that also clears the elapsed time
pauseTimer_clears(C, Q) == [Q EXCEPT !.isRunning = FALSE, !.elapsedTime = 0]

pauseTimer(C, Q) == [Q EXCEPT !.isRunning = FALSE]

\* resetTimer that saves the session it discards
resetTimer_saves(C, Q) ==
    [Q EXCEPT
        !.timeEntries = IF C.currentSession # Null
                        THEN Append(@, C.currentSession) ELSE @,
        !.isRunning = FALSE, !.elapsedTime = 0, !.currentSession = Null]

\* resetTimer that leaves the running flag set
resetTimer_keepsRunning(C, Q) ==
    [Q EXCEPT !.elapsedTime = 0, !.currentSession = Null]

resetTimer(C, Q) ==
    [Q EXCEPT !.isRunning = FALSE, !.elapsedTime = 0, !.currentSession = Null]

\* startBreak whose break takes over the notes of the session it ends
startBreak_keepsNotes(C, Q, t) ==
    [stopTimer(C, Q, t) EXCEPT
        !.currentSession =
           [NewEntry("break", t) EXCEPT
               !.notes = IF C.currentSession # Null
                         THEN C.currentSession.notes ELSE @],
        !.elapsedTime = 0,
        !.isRunning = TRUE]

\* startBreak that does not stop the session in progress
startBreak_noStop(C, Q, t) ==
    [Q EXCEPT
        !.currentSession = NewEntry("break", t),
        !.elapsedTime = 0,
        !.isRunning = TRUE]

startBreak(C, Q, t) ==
    [stopTimer(C, Q, t) EXCEPT
        !.currentSession = NewEntry("break", t),
        !.elapsedTime = 0,
        !.isRunning = TRUE]

\* addNoteToCurrentSession that also writes the note into the last saved entry
addNoteToCurrentSession_lastEntry(C, Q, note) ==
    IF C.currentSession # Null
    THEN [Q EXCEPT
            !.currentSession = [C.currentSession EXCEPT !.notes = note],
            !.timeEntries = [i \in 1..Len(@) |->
                               IF i = Len(@) THEN [@[i] EXCEPT !.notes = note]
                               ELSE @[i]]]
    ELSE Q

addNoteToCurrentSession(C, Q, note) ==
    IF C.currentSession # Null
    THEN [Q EXCEPT !.currentSession = [C.currentSession EXCEPT !.notes = note]]
    ELSE Q

\* ------------------------------------------------- Timer completion effect
targetDuration(C, s) ==
    IF C.currentSession.type = "work" THEN s.workDuration ELSE s.breakDuration

effectFires(C, s) ==
    /\ C.currentSession # Null
    /\ C.isRunning
    /\ C.elapsedTime >= targetDuration(C, s)

\* completion effect that starts the break whatever autoStartBreaks says
completionEffect_alwaysBreak(C, s, t) ==
    IF ~effectFires(C, s) THEN C
    ELSE IF C.currentSession.type = "work"
         THEN startBreak(C, stopTimer(C, C, t), t)
    ELSE IF C.currentSession.type = "break" /\ s.autoStartWork
         THEN startTimer(C, stopTimer(C, C, t), t)
    ELSE stopTimer(C, C, t)

completionEffect(C, s, t) ==
    IF ~effectFires(C, s) THEN C
    ELSE IF C.currentSession.type = "work" /\ s.autoStartBreaks
         THEN startBreak(C, stopTimer(C, C, t), t)
    ELSE IF C.currentSession.type = "break" /\ s.autoStartWork
         THEN startTimer(C, stopTimer(C, C, t), t)
    ELSE stopTimer(C, C, t)

\* ------------------------------------------------------- notifications
\* Notification.permission
Permissions == {"default", "granted", "denied"}

\* what evaluating Notification.permission yields: the permission, or a
\* ReferenceError on a platform that has no Notification
Unsupported == "ReferenceError"
PermissionReads == Permissions \cup {Unsupported}

\* what two runs of the same steps may differ in: the notifications setting
\* and the permission of the platform
NotifyConfigs == [notifications : BOOLEAN, permission : PermissionReads]

\* settings.notifications && Notification.permission === ... is evaluated by
\* the effect the Timer runs when it is mounted and by a completion effect
\* that fires: && reads Notification only if the setting is on
permissionThrows(s, permission) == s.notifications /\ permission = Unsupported

\* a completion effect that notifies without the permission
notify_ignoresPermission(C, s, permission) ==
    IF effectFires(C, s) /\ s.notifications
    THEN [title |-> "Time's Up!",
          body |-> IF C.currentSession.type = "work"
                   THEN "Work session completed! Time for a break."
                   ELSE "Break time is over! Ready to work?"]
    ELSE Null

\* the notification the completion effect creates, Null when it creates none
notify(C, s, permission) ==
    IF effectFires(C, s) /\ s.notifications /\ permission = "granted"
    THEN [title |-> "Time's Up!",
          body |-> IF C.currentSession.type = "work"
                   THEN "Work session completed! Time for a break."
                   ELSE "Break time is over! Ready to work?"]
    ELSE Null

settingsOf(s, config) == [s EXCEPT !.notifications = config.notifications]

\* a run whose Timer has just been mounted: an error thrown by an effect
\* leaves nothing rendered
RunOf(S, s, config) ==
    [isRunning |-> S.isRunning, currentSession |-> S.currentSession,
     timeEntries |-> S.timeEntries, elapsedTime |-> S.elapsedTime,
     notification |-> Null,
     crashed |-> permissionThrows(settingsOf(s, config), config.permission)]

TimerOf(run) ==
    [isRunning |-> run.isRunning, currentSession |-> run.currentSession,
     timeEntries |-> run.timeEntries, elapsedTime |-> run.elapsedTime]

RunsOf(configs, S, s) == [config \in configs |-> RunOf(S, s, config)]

\* a step that runs no completion effect creates no notification
Quiet(r) == [config \in DOMAIN r |-> [r[config] EXCEPT !.notification = Null]]

\* -------------------------------------------------------- App tick effect
\* tick effect whose cleanup does not clear the interval
tickEffect_noCleanup(installed, running) == installed \/ running

\* The effect depends on isRunning: when isRunning changes, the cleanup of the
\* previous run clears its interval and the new run installs one if isRunning.
\* The cleanup runs with the commit of the render, before the next callback of
\* the timer, whose period is 1000 ms.
tickEffect(installed, running) == running

\* ------------------------------------------------------------------- steps
\* commit the state S produced by operation op; the Timer effect is scheduled
\* when the Timer component is mounted for the render that follows
\* the operations that make a new session the current one
SessionStarts ==
    {"startBreak", "autoComplete"}
        \cup (IF currentSession = Null THEN {"startTimer"} ELSE {})

EffectOps == {"effect", "autoComplete"}

\* the followed runs after an operation that makes R[config] of the timer
\* state of each run; a run that has crashed stays as it is
Followed(R, op) ==
    [config \in DOMAIN runs |->
        IF runs[config].crashed
        THEN [runs[config] EXCEPT !.notification = Null]
        ELSE [R[config] EXCEPT
                !.notification =
                   IF op \in EffectOps
                   THEN notify(runs[config], settingsOf(settings, config),
                               config.permission)
                   ELSE Null]]

\* S is the state the operation makes of the state of the App, R[config] the
\* state it makes of each followed run
Commit(S, R, op) ==
    /\ isRunning' = S.isRunning
    /\ currentSession' = S.currentSession
    /\ timeEntries' = S.timeEntries
    /\ elapsedTime' = S.elapsedTime
    /\ interval' = tickEffect(interval, S.isRunning)
    /\ localStorage' = saveEffects(localStorage, timeEntries, S.timeEntries,
                                   settings, settings)
    /\ runs' = Followed(R, op)
    /\ UNCHANGED <<statsVars, formState, appStatus>>
    /\ lastOp' = op
    /\ ticks' = IF op = "tick" THEN ticks + 1
               ELSE IF S.currentSession = Null \/ op \in SessionStarts THEN 0
               ELSE ticks
    /\ pre' = Snapshot

\* the App after its first render and the persistence effects of that render;
\* configs are the notification configurations that are followed
FirstRender(configs) ==
    /\ isRunning = FALSE
    /\ currentSession = Null
    /\ timeEntries = << >>
    /\ elapsedTime = 0
    /\ settings = DefaultSettings
    /\ activeTab = "timer"
    /\ now = 0
    /\ effectPending = TRUE
    /\ interval = FALSE
    /\ timeRange = "today"
    /\ showBreaks = FALSE
    /\ formState = Null
    /\ localStorage = persist(EmptyStorage, timeEntries, settings)
    /\ appStatus = "mounted"
    /\ lastOp = "init"
    /\ ticks = 0
    /\ pre = Snapshot
    /\ runs = RunsOf(configs, St, settings)

Init == FirstRender({})

\* The buttons of the Timer component exist only while it is mounted.  The
\* component disables Stop without a session, Reset in the idle state and the
\* notes field without a session, and shows Start only when not running and
\* Pause only when running: in each of those states the handler behind the
\* control leaves the state as it is, so the handlers are modelled as callable
\* in every state.
TimerMounted == activeTab = "timer"
\* a work session can put two entries on the list and the break it starts a third
CanCreate == Len(timeEntries) + 3 <= MaxEntries

NotedEntries ==
    Cardinality({i \in 1..Len(timeEntries) : timeEntries[i].notes # ""})

StartTimer ==
    /\ TimerMounted /\ ~effectPending
    /\ currentSession = Null => CanCreate
    /\ Commit(startTimer(St, St, now),
              [config \in DOMAIN runs |->
                  startTimer(runs[config], runs[config], now)],
              "startTimer")
    /\ effectPending' = TRUE
    /\ UNCHANGED <<settings, activeTab, now>>

PauseTimer ==
    /\ TimerMounted /\ ~effectPending
    /\ Commit(pauseTimer(St, St),
              [config \in DOMAIN runs |->
                  pauseTimer(runs[config], runs[config])],
              "pauseTimer")
    /\ effectPending' = TRUE
    /\ UNCHANGED <<settings, activeTab, now>>

StopTimer ==
    /\ TimerMounted /\ ~effectPending
    /\ Commit(stopTimer(St, St, now),
              [config \in DOMAIN runs |->
                  stopTimer(runs[config], runs[config], now)],
              "stopTimer")
    /\ effectPending' = TRUE
    /\ UNCHANGED <<settings, activeTab, now>>

ResetTimer ==
    /\ TimerMounted /\ ~effectPending
    /\ Commit(resetTimer(St, St),
              [config \in DOMAIN runs |->
                  resetTimer(runs[config], runs[config])],
              "resetTimer")
    /\ effectPending' = TRUE
    /\ UNCHANGED <<settings, activeTab, now>>

StartBreak ==
    /\ TimerMounted /\ ~effectPending
    /\ CanCreate
    /\ Commit(startBreak(St, St, now),
              [config \in DOMAIN runs |->
                  startBreak(runs[config], runs[config], now)],
              "startBreak")
    /\ effectPending' = TRUE
    /\ UNCHANGED <<settings, activeTab, now>>

AddNote ==
    /\ TimerMounted /\ ~effectPending
    /\ NotedEntries < MaxNoted
    /\ \E note \in NoteTexts :
          Commit(addNoteToCurrentSession(St, St, note),
                 [config \in DOMAIN runs |->
                     addNoteToCurrentSession(runs[config], runs[config], note)],
                 "addNote")
    /\ effectPending' = TRUE
    /\ UNCHANGED <<settings, activeTab, now>>

\* the interval callback of the App tick effect
Tick ==
    /\ interval /\ ~effectPending
    /\ now < MaxNow
    /\ Commit([St EXCEPT !.elapsedTime = @ + 1],
              [config \in DOMAIN runs |->
                  [runs[config] EXCEPT !.elapsedTime = @ + 1]],
              "tick")
    /\ now' = now + 1
    /\ effectPending' = TimerMounted
    /\ UNCHANGED <<settings, activeTab>>

\* time passes between two sessions; during a session the ticks carry the time
TimePasses ==
    /\ ~effectPending
    /\ currentSession = Null /\ ~isRunning
    /\ now < MaxNow
    /\ now' = now + 1
    /\ lastOp' = "timePasses"
    /\ pre' = Snapshot
    /\ runs' = Quiet(runs)
    /\ UNCHANGED <<isRunning, currentSession, timeEntries, elapsedTime,
                   settings, activeTab, effectPending, ticks, interval,
                   statsVars, formState, localStorage, appStatus>>

\* the completion effect of the Timer component, run after a render
TimerEffect ==
    /\ effectPending
    /\ Commit(completionEffect(St, settings, now),
              [config \in DOMAIN runs |->
                  completionEffect(runs[config], settingsOf(settings, config),
                                   now)],
              IF effectFires(St, settings) THEN "autoComplete" ELSE "effect")
    /\ effectPending' = effectFires(St, settings)
    /\ UNCHANGED <<settings, activeTab, now>>

SetActiveTab ==
    /\ ~effectPending
    /\ \E tab \in Tabs \ {activeTab} :
          /\ activeTab' = tab
          /\ effectPending' = (tab = "timer")
          /\ formState' = IF tab = "settings" THEN settings ELSE Null
    /\ lastOp' = "setActiveTab"
    /\ pre' = Snapshot
    /\ runs' = Quiet(runs)
    /\ UNCHANGED <<isRunning, currentSession, timeEntries, elapsedTime,
                   settings, now, ticks, interval, statsVars, localStorage,
                   appStatus>>

\* the records the Settings form submits; durations are in seconds, and the
\* model offers durations of a few seconds so that the ticks reach them
SettingsValues ==
    [workDuration : {1, MaxDuration}, breakDuration : {1, MaxDuration},
     autoStartBreaks : BOOLEAN, autoStartWork : BOOLEAN,
     notifications : {TRUE}, darkMode : {FALSE}, userId : {"other"}]

\* updateSettings that stores the record as the form hands it over
updateSettings_keepsUserId(newSettings) == newSettings

updateSettings(newSettings) == [newSettings EXCEPT !.userId = UserId]

UpdateSettings ==
    /\ activeTab = "settings" /\ ~effectPending
    /\ \E newSettings \in SettingsValues :
          /\ formState' = newSettings
          /\ settings' = updateSettings(newSettings)
    /\ localStorage' = saveEffects(localStorage, timeEntries, timeEntries,
                                   settings, settings')
    /\ lastOp' = "updateSettings"
    /\ pre' = Snapshot
    /\ runs' = Quiet(runs)
    /\ UNCHANGED <<isRunning, currentSession, timeEntries, elapsedTime,
                   activeTab, now, effectPending, ticks, interval, statsVars,
                   appStatus>>

\* clearStatistics that does not ask for the confirmation
clearStatistics_noConfirm(confirm, entries, storage) ==
    [timeEntries |-> << >>,
     localStorage |-> [storage EXCEPT !.timeEntries = JSONstringifyEntries(<< >>)]]

\* window.confirm answers confirm; the handler writes the stored list itself
clearStatistics(confirm, entries, storage) ==
    IF confirm
    THEN [timeEntries |-> << >>,
          localStorage |-> [storage EXCEPT
                               !.timeEntries = JSONstringifyEntries(<< >>)]]
    ELSE [timeEntries |-> entries, localStorage |-> storage]

\* the handler, and the persistence effects of the render that follows
ClearStatistics ==
    /\ activeTab = "statistics" /\ ~effectPending
    /\ \E confirm \in BOOLEAN :
          LET done == clearStatistics(confirm, timeEntries, localStorage)
          IN  /\ timeEntries' = done.timeEntries
              /\ localStorage' =
                    saveEffects(done.localStorage, timeEntries,
                                done.timeEntries, settings, settings)
              /\ runs' = [config \in DOMAIN runs |->
                             [runs[config] EXCEPT
                                !.timeEntries =
                                   IF runs[config].crashed THEN @
                                   ELSE clearStatistics(confirm, @,
                                           localStorage).timeEntries,
                                !.notification = Null]]
              /\ lastOp' = IF confirm THEN "clearStatistics"
                           ELSE "clearDeclined"
    /\ pre' = Snapshot
    /\ UNCHANGED <<isRunning, currentSession, elapsedTime, settings,
                   activeTab, now, effectPending, ticks, interval, statsVars,
                   formState, appStatus>>

Next ==
    \/ StartTimer
    \/ PauseTimer
    \/ StopTimer
    \/ ResetTimer
    \/ StartBreak
    \/ AddNote
    \/ Tick
    \/ TimePasses
    \/ TimerEffect
    \/ SetActiveTab
    \/ UpdateSettings
    \/ ClearStatistics

Spec == Init /\ [][Next]_vars

\* --------------------------------------------- the App with its header
toggleDarkMode(s) == [s EXCEPT !.darkMode = ~@]

\* the button of the header, shown on every tab
ToggleDarkMode ==
    /\ ~effectPending
    /\ settings' = toggleDarkMode(settings)
    /\ localStorage' = saveEffects(localStorage, timeEntries, timeEntries,
                                   settings, settings')
    /\ effectPending' = TimerMounted
    /\ lastOp' = "toggleDarkMode"
    /\ pre' = Snapshot
    /\ runs' = Quiet(runs)
    /\ UNCHANGED <<isRunning, currentSession, timeEntries, elapsedTime,
                   activeTab, now, ticks, interval, statsVars, formState,
                   appStatus>>

\* the operations that start, run and end sessions, change the settings and
\* clear the list: all of Next but the typing of notes
NextSessions ==
    \/ StartTimer
    \/ PauseTimer
    \/ StopTimer
    \/ ResetTimer
    \/ StartBreak
    \/ Tick
    \/ TimePasses
    \/ TimerEffect
    \/ SetActiveTab
    \/ UpdateSettings
    \/ ClearStatistics

NextApp ==
    \/ NextSessions
    \/ ToggleDarkMode

SpecApp == Init /\ [][NextApp]_vars

\* the same operations, followed under every notification configuration
\* The callback of setInterval comes every second whatever else happens, and
\* an effect that is scheduled runs before anything else does.
SpecLive ==
    Init /\ [][NextSessions]_vars /\ SF_vars(Tick) /\ WF_vars(TimerEffect)

InitNotify == FirstRender(NotifyConfigs)

SpecNotify == InitNotify /\ [][NextSessions]_vars

\* ------------------------------------------------------ Statistics engine
\* A Date is modelled by its clock instant; InstantsPerDay instants make a day.
TimeRanges == {"today", "week", "month", "all"}
EntryTypes == {"work", "break", "shortBreak", "longBreak"}
DaysPerWeek == 7
\* getDay() of day 0 of the clock (1 January 1970 was a Thursday)
EpochWeekday == 4
\* the calendar of the model has months of equal length
DaysPerMonth == 30

\* formatDate: the calendar date of an instant, the grouping key of a day
formatDate(t) == t \div InstantsPerDay

\* new Date(date).getTime(): the instant a date key parses to, its midnight
dateTime(date) == date * InstantsPerDay

\* new Date(now.getFullYear(), now.getMonth(), now.getDate())
today(nowT) == dateTime(formatDate(nowT))

\* startOfWeek.setDate(today.getDate() - today.getDay())
startOfWeek(nowT) ==
    LET d == formatDate(nowT)
    IN  dateTime(d - ((d + EpochWeekday) % DaysPerWeek))

\* new Date(now.getFullYear(), now.getMonth(), 1)
startOfMonth(nowT) ==
    LET d == formatDate(nowT)
    IN  dateTime(d - (d % DaysPerMonth))

\* App hands the Statistics component the entries of the current owner
ownEntries(entries) ==
    LET Own(e) == e.userId = UserId IN SelectSeq(entries, Own)

\* filter that drops the entry that starts at the first instant of the range
filterByRange_exclusive(entries, range, nowT) ==
    LET FromToday(e) == newDate(e.startTime) > today(nowT)
        FromWeek(e) == newDate(e.startTime) > startOfWeek(nowT)
        FromMonth(e) == newDate(e.startTime) > startOfMonth(nowT)
    IN  IF range = "today" THEN SelectSeq(entries, FromToday)
        ELSE IF range = "week" THEN SelectSeq(entries, FromWeek)
        ELSE IF range = "month" THEN SelectSeq(entries, FromMonth)
        ELSE entries

filterByRange(entries, range, nowT) ==
    LET FromToday(e) == newDate(e.startTime) >= today(nowT)
        FromWeek(e) == newDate(e.startTime) >= startOfWeek(nowT)
        FromMonth(e) == newDate(e.startTime) >= startOfMonth(nowT)
    IN  IF range = "today" THEN SelectSeq(entries, FromToday)
        ELSE IF range = "week" THEN SelectSeq(entries, FromWeek)
        ELSE IF range = "month" THEN SelectSeq(entries, FromMonth)
        ELSE entries

RECURSIVE sumDuration(_)
sumDuration(entries) ==
    IF entries = << >> THEN 0
    ELSE Head(entries).duration + sumDuration(Tail(entries))

workOf(entries) ==
    LET IsWork(e) == e.type = "work" IN SelectSeq(entries, IsWork)

breaksOf(entries) ==
    LET IsBreak(e) == e.type = "shortBreak" \/ e.type = "longBreak"
    IN  SelectSeq(entries, IsBreak)

ofType(entries, type) ==
    LET IsType(e) == e.type = type IN SelectSeq(entries, IsType)

\* Object.keys(entriesByDay): the date keys in the order of first appearance
RECURSIVE dayKeys(_, _)
dayKeys(entries, n) ==
    IF n = 0 THEN << >>
    ELSE LET keys == dayKeys(entries, n - 1)
             date == formatDate(newDate(entries[n].startTime))
         IN  IF \E i \in 1..Len(keys) : keys[i] = date
             THEN keys ELSE Append(keys, date)

\* dayRow that counts the breaks of the day as sessions
dayRow_countsAll(entries, date) ==
    LET OnDate(e) == formatDate(newDate(e.startTime)) = date
        es == SelectSeq(entries, OnDate)
    IN  [date |-> date,
         totalWorkTime |-> sumDuration(workOf(es)),
         totalBreakTime |-> sumDuration(breaksOf(es)),
         sessions |-> Len(es)]

dayRow(entries, date) ==
    LET OnDate(e) == formatDate(newDate(e.startTime)) = date
        es == SelectSeq(entries, OnDate)
    IN  [date |-> date,
         totalWorkTime |-> sumDuration(workOf(es)),
         totalBreakTime |-> sumDuration(breaksOf(es)),
         sessions |-> Len(workOf(es))]

\* sort with the comparison the wrong way round, oldest day first
RECURSIVE sortNewestFirst_oldestFirst(_, _)
sortNewestFirst_oldestFirst(rows, n) ==
    IF n = 0 THEN << >>
    ELSE LET sorted == sortNewestFirst_oldestFirst(rows, n - 1)
             row == rows[n]
             NotBefore(r) == dateTime(r.date) <= dateTime(row.date)
             Before(r) == ~NotBefore(r)
         IN  SelectSeq(sorted, NotBefore) \o <<row>> \o SelectSeq(sorted, Before)

\* dailyStats.sort((a, b) => new Date(b.date) - new Date(a.date)): a stable
\* sort, newest day first
RECURSIVE sortNewestFirst(_, _)
sortNewestFirst(rows, n) ==
    IF n = 0 THEN << >>
    ELSE LET sorted == sortNewestFirst(rows, n - 1)
             row == rows[n]
             NotAfter(r) == dateTime(r.date) >= dateTime(row.date)
             After(r) == ~NotAfter(r)
         IN  SelectSeq(sorted, NotAfter) \o <<row>> \o SelectSeq(sorted, After)

dailyStatsOf(displayed) ==
    LET keys == dayKeys(displayed, Len(displayed))
        rows == [i \in 1..Len(keys) |-> dayRow(displayed, keys[i])]
    IN  sortNewestFirst(rows, Len(rows))

\* reduce that keeps the first of two days with equal work time
RECURSIVE mostProductiveDay_keepsFirst(_, _)
mostProductiveDay_keepsFirst(rows, n) ==
    IF n = 0 THEN Null
    ELSE IF n = 1 THEN rows[1]
    ELSE LET prev == mostProductiveDay_keepsFirst(rows, n - 1)
         IN  IF prev.totalWorkTime >= rows[n].totalWorkTime
             THEN prev ELSE rows[n]

\* reduce with the comparison the wrong way round
RECURSIVE mostProductiveDay_least(_, _)
mostProductiveDay_least(rows, n) ==
    IF n = 0 THEN Null
    ELSE IF n = 1 THEN rows[1]
    ELSE LET prev == mostProductiveDay_least(rows, n - 1)
         IN  IF prev.totalWorkTime < rows[n].totalWorkTime
             THEN prev ELSE rows[n]

\* dailyStats.reduce((prev, current) =>
\*     prev.totalWorkTime > current.totalWorkTime ? prev : current), or null
RECURSIVE mostProductiveDay(_, _)
mostProductiveDay(rows, n) ==
    IF n = 0 THEN Null
    ELSE IF n = 1 THEN rows[1]
    ELSE LET prev == mostProductiveDay(rows, n - 1)
         IN  IF prev.totalWorkTime > rows[n].totalWorkTime
             THEN prev ELSE rows[n]

\* stats memo that takes the totals from the displayed entries
computeStats_displayedTotals(entries, range, withBreaks, nowT) ==
    LET filteredEntries == filterByRange(entries, range, nowT)
        displayedEntries == IF withBreaks THEN filteredEntries
                            ELSE workOf(filteredEntries)
        dailyStats == dailyStatsOf(displayedEntries)
    IN  [totalWorkTime |-> sumDuration(workOf(displayedEntries)),
         totalBreakTime |-> sumDuration(breaksOf(displayedEntries)),
         workSessions |-> Len(workOf(displayedEntries)),
         shortBreaks |-> Len(ofType(displayedEntries, "shortBreak")),
         longBreaks |-> Len(ofType(displayedEntries, "longBreak")),
         dailyStats |-> dailyStats,
         filteredEntries |-> displayedEntries,
         mostProductiveDay |-> mostProductiveDay(dailyStats, Len(dailyStats))]

\* the stats memo of the Statistics component
computeStats(entries, range, withBreaks, nowT) ==
    LET filteredEntries == filterByRange(entries, range, nowT)
        displayedEntries == IF withBreaks THEN filteredEntries
                            ELSE workOf(filteredEntries)
        dailyStats == dailyStatsOf(displayedEntries)
    IN  [totalWorkTime |-> sumDuration(workOf(filteredEntries)),
         totalBreakTime |-> sumDuration(breaksOf(filteredEntries)),
         workSessions |-> Len(workOf(filteredEntries)),
         shortBreaks |-> Len(ofType(filteredEntries, "shortBreak")),
         longBreaks |-> Len(ofType(filteredEntries, "longBreak")),
         dailyStats |-> dailyStats,
         filteredEntries |-> displayedEntries,
         mostProductiveDay |-> mostProductiveDay(dailyStats, Len(dailyStats))]

\* the stats the mounted Statistics component shows
stats == computeStats(ownEntries(timeEntries), timeRange, showBreaks, now)

\* ------------------------------------------------------ productivity score
\* The score is computed on JavaScript numbers, IEEE 754 doubles.  A positive
\* double is modelled by its significand m, a sequence of Precision bits
\* that starts with 1, and its exponent e: its value is the sum of
\* m[i] * 2^(e - i).  Every operation returns the double nearest to the exact
\* result, the one with the even significand when two are equally near.
Precision == 53
\* fraction bits long division produces before it rounds: more than
\* Precision + 1 after the first 1 of any quotient of two durations
QuotientBits == 80

Zeros(n) == [i \in 1..n |-> 0]

\* digits per limb when a significand is multiplied limb by limb
LimbBits == 18

\* the last width binary digits of a natural number
Digits(n, width) == [i \in 1..width |-> (n \div 2^(width - i)) % 2]

\* the binary digits of a natural number below 2^30, none for 0
BitsOf(n) ==
    Digits(n, CHOOSE k \in 0..30 : n < 2^k /\ (k > 0 => n >= 2^(k - 1)))

\* the natural number of a sequence of binary digits
RECURSIVE ValueOf(_)
ValueOf(bits) ==
    IF bits = << >> THEN 0
    ELSE 2 * ValueOf(SubSeq(bits, 1, Len(bits) - 1)) + bits[Len(bits)]

HasOne(bits) == \E i \in 1..Len(bits) : bits[i] = 1
FirstOne(bits) == CHOOSE i \in 1..Len(bits) :
                      bits[i] = 1 /\ \A j \in 1..(i - 1) : bits[j] = 0
LastOne(bits) == CHOOSE i \in 1..Len(bits) :
                     bits[i] = 1 /\ \A j \in (i + 1)..Len(bits) : bits[j] = 0
LastZero(bits) == CHOOSE i \in 1..Len(bits) :
                      bits[i] = 0 /\ \A j \in (i + 1)..Len(bits) : bits[j] = 1

\* the double next above the one with significand m and exponent e
NextUp(m, e) ==
    IF \A i \in 1..Len(m) : m[i] = 1
    THEN [m |-> <<1>> \o Zeros(Len(m) - 1), e |-> e + 1]
    ELSE [m |-> [i \in 1..Len(m) |->
                   IF i < LastZero(m) THEN m[i]
                   ELSE IF i = LastZero(m) THEN 1 ELSE 0],
          e |-> e]

\* round to nearest, ties to even: bits are the digits of the exact result
\* from its first 1, of weights 2^(e-1), 2^(e-2), ...; sticky tells that
\* the exact result has further nonzero digits
roundToDouble(bits, sticky, e) ==
    LET all == bits \o Zeros(Precision + 1)
        m == SubSeq(all, 1, Precision)
        guard == all[Precision + 1]
        rest == sticky \/ HasOne(SubSeq(all, Precision + 2, Len(all)))
    IN  IF guard = 1 /\ (rest \/ m[Precision] = 1)
        THEN NextUp(m, e) ELSE [m |-> m, e |-> e]

\* the double of a positive integer
fromInt(n) == roundToDouble(BitsOf(n), FALSE, Len(BitsOf(n)))

\* the integer part of a double, and the digits after the binary point
intPart(d) == IF d.e <= 0 THEN 0 ELSE ValueOf(SubSeq(d.m, 1, d.e))
fracBits(d) ==
    IF d.e <= 0 THEN Zeros(-d.e) \o d.m ELSE SubSeq(d.m, d.e + 1, Precision)

\* the double of an integer part and the digits after the binary point
fromParts(int, frac) ==
    LET all == BitsOf(int) \o frac
        first == FirstOne(all)
    IN  roundToDouble(SubSeq(all, first, Len(all)), FALSE,
                      Len(BitsOf(int)) - (first - 1))

\* comparisons of a double with an integer
atLeast(d, n) == intPart(d) >= n
atMost(d, n) == intPart(d) < n \/ (intPart(d) = n /\ ~HasOne(fracBits(d)))

\* 2^k modulo b
RECURSIVE Pow2Mod(_, _)
Pow2Mod(k, b) ==
    IF k = 0 THEN 1 % b
    ELSE LET half == Pow2Mod(k \div 2, b)
         IN  (half * half * (IF k % 2 = 1 THEN 2 ELSE 1)) % b

\* long division: n binary digits of r / b for r < b, and what remains;
\* before digit i the division has the remainder r * 2^(i-1) modulo b
divideBits(r, b, n) ==
    [bits |-> [i \in 1..n |->
                 IF 2 * ((r * Pow2Mod(i - 1, b)) % b) >= b THEN 1 ELSE 0],
     rem |-> (r * Pow2Mod(n, b)) % b]

\* w / b for positive integers w and b
divide(w, b) ==
    LET int == BitsOf(w \div b)
        frac == divideBits(w % b, b, QuotientBits)
        all == int \o frac.bits
        first == FirstOne(all)
    IN  roundToDouble(SubSeq(all, first, Len(all)), frac.rem # 0,
                      Len(int) - (first - 1))

\* d * 2^k, exact
scale(d, k) == [d EXCEPT !.e = @ + k]

\* the digits of m * n + carry, for a sequence m of binary digits and
\* n < 2^12: the last limb is multiplied first and its carry goes on
RECURSIVE timesBits(_, _, _)
timesBits(m, n, carry) ==
    IF Len(m) <= LimbBits THEN BitsOf(ValueOf(m) * n + carry)
    ELSE LET cut == Len(m) - LimbBits
             p == ValueOf(SubSeq(m, cut + 1, Len(m))) * n + carry
         IN  timesBits(SubSeq(m, 1, cut), n, p \div 2^LimbBits)
                 \o Digits(p % 2^LimbBits, LimbBits)

\* d * n for a positive integer n
times(d, n) ==
    LET bits == timesBits(d.m, n, 0)
    IN  roundToDouble(bits, FALSE, d.e + (Len(bits) - Precision))

\* d - n for an integer n < d: exact, the difference has no more digits
\* than d
minus(d, n) == fromParts(intPart(d) - n, fracBits(d))

\* n - d for an integer n > d
intMinus(n, d) ==
    LET frac == fracBits(d)
    IN  IF ~HasOne(frac) THEN fromInt(n - intPart(d))
        ELSE fromParts(n - 1 - intPart(d),
                       [i \in 1..Len(frac) |->
                          IF i < LastOne(frac) THEN 1 - frac[i] ELSE frac[i]])

\* Math.round of a positive double: floor(d + 0.5)
MathRound(d) ==
    intPart(d) + (IF fracBits(d) # << >> /\ fracBits(d)[1] = 1 THEN 1 ELSE 0)

\* productivityScore without the floor of 50 under the ideal ratio
productivityScore_noFloor(w, b) ==
    IF w = 0 THEN 0
    ELSE LET workBreakRatio == IF b > 0 THEN divide(w, b) ELSE fromInt(100)
         IN  IF atLeast(workBreakRatio, 4) /\ atMost(workBreakRatio, 6)
             THEN 100
             ELSE IF ~atMost(workBreakRatio, 6)
             THEN LET over == times(scale(minus(workBreakRatio, 6), -2), 100)
                  IN  IF atLeast(over, 50) THEN 100 - 50
                      ELSE MathRound(intMinus(100, over))
             ELSE MathRound(times(scale(workBreakRatio, -2), 100))

\* the productivityScore memo, for totalWorkTime w and totalBreakTime b
\* (without work time the score is 0: the memo returns 0 when there is no
\* break time either, and a ratio of 0 matches none of its three cases)
productivityScore(w, b) ==
    IF w = 0 THEN 0
    ELSE LET workBreakRatio == IF b > 0 THEN divide(w, b) ELSE fromInt(100)
         IN  IF atLeast(workBreakRatio, 4) /\ atMost(workBreakRatio, 6)
             THEN 100
             ELSE IF ~atMost(workBreakRatio, 6)
             THEN LET over == times(scale(minus(workBreakRatio, 6), -2), 100)
                  IN  IF atLeast(over, 50) THEN 100 - 50
                      ELSE MathRound(intMinus(100, over))
             ELSE LET under == times(scale(workBreakRatio, -2), 100)
                  IN  IF atLeast(under, 50) THEN MathRound(under) ELSE 50

\* -------------------------------- the Statistics component on a stored list
\* The entry list App loads from localStorage is whatever was stored there,
\* with the ISO-8601 strings JSON.stringify made of the Date fields.
\* The stored entries are spread over three days, the last of them today,
\* with one entry at the midnight that starts today.
StoredTimes ==
    {0, InstantsPerDay, 2 * InstantsPerDay, 2 * InstantsPerDay + 1}
StoredDurations == {1, 2}
StatsNow == 3 * InstantsPerDay - 1

StoredEntry(t, d, type) ==
    [id |-> t, startTime |-> toISOString(t), endTime |-> toISOString(t + d),
     duration |-> d, type |-> type, notes |-> "", userId |-> UserId]

\* work entries of each duration, and breaks of each type of one duration
StoredEntries ==
    {StoredEntry(t, d, "work") : t \in StoredTimes, d \in StoredDurations}
        \cup {StoredEntry(t, 1, type) :
                 t \in StoredTimes, type \in EntryTypes \ {"work"}}

StoredLists ==
    UNION {[1..n -> StoredEntries] : n \in 0..MaxStored}

InitStats ==
    /\ isRunning = FALSE
    /\ currentSession = Null
    /\ timeEntries \in StoredLists
    /\ elapsedTime = 0
    /\ settings = DefaultSettings
    /\ activeTab = "statistics"
    /\ now = StatsNow
    /\ effectPending = FALSE
    /\ interval = FALSE
    /\ timeRange = "today"
    /\ showBreaks = FALSE
    /\ formState = Null
    /\ localStorage = persist(EmptyStorage, timeEntries, settings)
    /\ appStatus = "mounted"
    /\ lastOp = "init"
    /\ ticks = 0
    /\ pre = Snapshot
    /\ runs = RunsOf({}, St, settings)

SetTimeRange ==
    /\ activeTab = "statistics"
    /\ \E range \in TimeRanges : timeRange' = range
    /\ lastOp' = "setTimeRange"
    /\ pre' = Snapshot
    /\ runs' = Quiet(runs)
    /\ UNCHANGED <<isRunning, currentSession, timeEntries, elapsedTime,
                   settings, activeTab, now, effectPending, interval,
                   showBreaks, ticks, formState, localStorage, appStatus>>

SetShowBreaks ==
    /\ activeTab = "statistics"
    /\ \E checked \in BOOLEAN : showBreaks' = checked
    /\ lastOp' = "setShowBreaks"
    /\ pre' = Snapshot
    /\ runs' = Quiet(runs)
    /\ UNCHANGED <<isRunning, currentSession, timeEntries, elapsedTime,
                   settings, activeTab, now, effectPending, interval,
                   timeRange, ticks, formState, localStorage, appStatus>>

NextStats ==
    \/ SetTimeRange
    \/ SetShowBreaks

SpecStats == InitStats /\ [][NextStats]_vars

\* ------------------------------------------------- the Settings component
SecondsPerMinute == 60
\* the min and max attributes of the two duration inputs, in minutes
MinMinutes == 1
MaxMinutes == [workDuration |-> 120, breakDuration |-> 60]
DurationFields == {"workDuration", "breakDuration"}
CheckboxFields == {"autoStartBreaks", "autoStartWork", "notifications"}

\* what the user leaves in a duration input: nothing, text that is no
\* number, and numbers below, in and above the range of the input
DurationInputs == {"", "abc", "-1", "0", "1", "121"}

\* parseInt(text, 10): NaN unless the text is a number
parseInt(text) ==
    LET numbers == {n \in -1..121 : ToString(n) = text}
    IN  IF numbers = {} THEN [isNaN |-> TRUE, value |-> 0]
        ELSE [isNaN |-> FALSE, value |-> CHOOSE n \in numbers : TRUE]

\* minutesToSeconds parses String(minutes) again: NaN stays NaN
minutesToSeconds(minutes) ==
    IF minutes.isNaN THEN 0 ELSE minutes.value * SecondsPerMinute

\* Math.floor(seconds / 60)
secondsToMinutes(seconds) == seconds \div SecondsPerMinute

\* The browser submits the form only if every input is valid.  A duration
\* input shows secondsToMinutes(...) || '': it is empty for 0 minutes, and an
\* empty input that is not required is valid; a number is valid within the
\* min and max of the input.
inputValid(form, field) ==
    LET shown == secondsToMinutes(form[field])
    IN  shown = 0 \/ (MinMinutes <= shown /\ shown <= MaxMinutes[field])

InitSettings ==
    /\ isRunning = FALSE
    /\ currentSession = Null
    /\ timeEntries = << >>
    /\ elapsedTime = 0
    /\ settings = DefaultSettings
    /\ activeTab = "settings"
    /\ now = 0
    /\ effectPending = FALSE
    /\ interval = FALSE
    /\ timeRange = "today"
    /\ showBreaks = FALSE
    /\ formState = settings
    /\ localStorage = persist(EmptyStorage, timeEntries, settings)
    /\ appStatus = "mounted"
    /\ lastOp = "init"
    /\ ticks = 0
    /\ pre = Snapshot
    /\ runs = RunsOf({}, St, settings)

\* the onChange handlers of the two duration inputs
HandleDurationChange ==
    /\ activeTab = "settings"
    /\ \E field \in DurationFields, text \in DurationInputs :
          formState' = [formState EXCEPT
                           ![field] = minutesToSeconds(parseInt(text))]
    /\ lastOp' = "handleDurationChange"
    /\ pre' = Snapshot
    /\ runs' = Quiet(runs)
    /\ UNCHANGED <<isRunning, currentSession, timeEntries, elapsedTime,
                   settings, activeTab, now, effectPending, interval,
                   statsVars, localStorage, appStatus, ticks>>

\* handleChange, the onChange handler of the three checkboxes
HandleChange ==
    /\ activeTab = "settings"
    /\ \E field \in CheckboxFields, checked \in BOOLEAN :
          formState' = [formState EXCEPT ![field] = checked]
    /\ lastOp' = "handleChange"
    /\ pre' = Snapshot
    /\ runs' = Quiet(runs)
    /\ UNCHANGED <<isRunning, currentSession, timeEntries, elapsedTime,
                   settings, activeTab, now, effectPending, interval,
                   statsVars, localStorage, appStatus, ticks>>

\* handleSubmit, and the persistence effect of the render that follows
HandleSubmit ==
    /\ activeTab = "settings"
    /\ \A field \in DurationFields : inputValid(formState, field)
    /\ settings' = updateSettings(formState)
    /\ localStorage' = saveEffects(localStorage, timeEntries, timeEntries,
                                   settings, settings')
    /\ lastOp' = "updateSettings"
    /\ pre' = Snapshot
    /\ runs' = Quiet(runs)
    /\ UNCHANGED <<isRunning, currentSession, timeEntries, elapsedTime,
                   activeTab, now, effectPending, interval, statsVars,
                   formState, appStatus, ticks>>

NextSettings ==
    \/ HandleDurationChange
    \/ HandleChange
    \/ HandleSubmit
    \/ ToggleDarkMode

SpecSettings == InitSettings /\ [][NextSettings]_vars

\* ------------------------------- the score of a work time and a break time
\* the score the mounted Statistics component shows
score == productivityScore(stats.totalWorkTime, stats.totalBreakTime)

\* one work entry and one short break of today, of every duration
ScoredLists ==
    {<<StoredEntry(StatsNow, w, "work"), StoredEntry(StatsNow, b, "shortBreak")>> :
        w \in 0..MaxWorkTime, b \in 0..MaxBreakTime}

InitScore ==
    /\ isRunning = FALSE
    /\ currentSession = Null
    /\ timeEntries \in ScoredLists
    /\ elapsedTime = 0
    /\ settings = DefaultSettings
    /\ activeTab = "statistics"
    /\ now = StatsNow
    /\ effectPending = FALSE
    /\ interval = FALSE
    /\ timeRange = "today"
    /\ showBreaks = FALSE
    /\ formState = Null
    /\ localStorage = persist(EmptyStorage, timeEntries, settings)
    /\ appStatus = "mounted"
    /\ lastOp = "init"
    /\ ticks = 0
    /\ pre = Snapshot
    /\ runs = RunsOf({}, St, settings)

SpecScore == InitScore /\ [][NextStats]_vars

\* ------------------------ the time ranges around a week and a month start
\* Today is a Monday, the second day of a week and the third of a month; the
\* stored entries start at the first instants of the month, of the week and
\* of today, at the instants just before them, and now.
RangeToday == DaysPerMonth + 2
RangeNow == (RangeToday + 1) * InstantsPerDay - 1
RangedTimes ==
    {d * InstantsPerDay - 1 : d \in (RangeToday - 2)..RangeToday}
        \cup {d * InstantsPerDay : d \in (RangeToday - 2)..RangeToday}
        \cup {RangeNow}

RangedLists ==
    UNION {[1..n -> {StoredEntry(t, 1, "work") : t \in RangedTimes}] :
              n \in 0..MaxStored}

InitRange ==
    /\ isRunning = FALSE
    /\ currentSession = Null
    /\ timeEntries \in RangedLists
    /\ elapsedTime = 0
    /\ settings = DefaultSettings
    /\ activeTab = "statistics"
    /\ now = RangeNow
    /\ effectPending = FALSE
    /\ interval = FALSE
    /\ timeRange = "today"
    /\ showBreaks = FALSE
    /\ formState = Null
    /\ localStorage = persist(EmptyStorage, timeEntries, settings)
    /\ appStatus = "mounted"
    /\ lastOp = "init"
    /\ ticks = 0
    /\ pre = Snapshot
    /\ runs = RunsOf({}, St, settings)

SpecRange == InitRange /\ [][NextStats]_vars

\* ------------------------------------------- loading the App from the store
\* stored strings that are not JSON text: the empty string and a cut-off one
UnparseableTexts == {"", "{"}
StoredKeys == {"timeEntries", "settings"}

\* saved ? JSON.parse(saved) : fallback -- null and '' are falsy
falsy(item) == item = Null \/ item = [text |-> ""]
throws(item) == ~falsy(item) /\ DOMAIN item # {"json"}
initialState(item, fallback) ==
    IF falsy(item) THEN fallback ELSE JSONparse(item)

\* the page is closed: the store is all that is left of the App
Unload ==
    /\ appStatus = "mounted"
    /\ appStatus' = "unmounted"
    /\ lastOp' = "unload"
    /\ pre' = Snapshot
    /\ runs' = Quiet(runs)
    /\ UNCHANGED <<isRunning, currentSession, timeEntries, elapsedTime,
                   settings, activeTab, now, effectPending, interval,
                   statsVars, formState, localStorage, ticks>>

\* while the page is closed one stored item is replaced by unparseable text
Corrupt ==
    /\ appStatus = "unmounted"
    /\ \E key \in StoredKeys, text \in UnparseableTexts :
          /\ \A k \in StoredKeys : DOMAIN localStorage[k] # {"text"}
          /\ localStorage' = [localStorage EXCEPT ![key] = [text |-> text]]
    /\ lastOp' = "corrupt"
    /\ pre' = Snapshot
    /\ runs' = Quiet(runs)
    /\ UNCHANGED <<isRunning, currentSession, timeEntries, elapsedTime,
                   settings, activeTab, now, effectPending, interval,
                   statsVars, formState, appStatus, ticks>>

\* the first render of App and its persistence effects: the useState
\* initializers read the store; an initializer that throws leaves nothing
\* rendered
Mount ==
    /\ appStatus = "unmounted"
    /\ IF throws(localStorage.timeEntries) \/ throws(localStorage.settings)
       THEN /\ appStatus' = "crashed"
            /\ runs' = Quiet(runs)
            /\ UNCHANGED <<isRunning, currentSession, timeEntries,
                           elapsedTime, settings, activeTab, effectPending,
                           interval, statsVars, formState, localStorage>>
       ELSE /\ appStatus' = "mounted"
            /\ activeTab' = "timer"
            /\ isRunning' = FALSE
            /\ currentSession' = Null
            /\ timeEntries' = initialState(localStorage.timeEntries, << >>)
            /\ elapsedTime' = 0
            /\ settings' = initialState(localStorage.settings, DefaultSettings)
            /\ effectPending' = TRUE
            /\ interval' = FALSE
            /\ timeRange' = "today"
            /\ showBreaks' = FALSE
            /\ formState' = Null
            /\ localStorage' = persist(localStorage, timeEntries', settings')
            /\ runs' = RunsOf(DOMAIN runs,
                              [isRunning |-> FALSE, currentSession |-> Null,
                               timeEntries |-> timeEntries',
                               elapsedTime |-> 0], settings')
    /\ lastOp' = "mount"
    /\ ticks' = 0
    /\ pre' = Snapshot
    /\ UNCHANGED now

NextLoad ==
    \/ appStatus = "mounted" /\ Next
    \/ Unload
    \/ Corrupt
    \/ Mount

SpecLoad == Init /\ [][NextLoad]_vars

\* ------------------------------------------------------------------ claims
\* the machine states of the session state machine
Idle(S) == S.currentSession = Null /\ ~S.isRunning
Running(S) == S.currentSession # Null /\ S.isRunning
Paused(S) == S.currentSession # Null /\ ~S.isRunning

\* the entry stopTimer makes of the session of state S at instant t
Finalized(S, t) ==
    [S.currentSession EXCEPT !.endTime = t, !.duration = S.elapsedTime]

\* the completion effect has just fired on a session of the given type
AutoCompleted(type) ==
    /\ lastOp = "autoComplete"
    /\ pre.currentSession.type = type

\* C1: when a Running work session reaches workDuration and autoStartBreaks
\* is on, the completion appends exactly one work entry, makes one new break
\* session the current session and leaves the timer Running in that break.
C1_AutoBreakOnce ==
    (AutoCompleted("work") /\ settings.autoStartBreaks) =>
        /\ Len(timeEntries) = Len(pre.timeEntries) + 1
        /\ currentSession # Null
        /\ currentSession.type = "break"
        /\ isRunning

\* C2: when a Running break reaches breakDuration and autoStartWork is on,
\* the completion appends the break exactly once and afterwards a new work
\* session is the current session and the timer is Running.
C2_AutoWorkAfterBreak ==
    (AutoCompleted("break") /\ settings.autoStartWork) =>
        /\ Len(timeEntries) = Len(pre.timeEntries) + 1
        /\ currentSession # Null
        /\ currentSession.type = "work"
        /\ isRunning

\* C3: stop() of a session created by start(), after n ticks were delivered
\* to it, grows the entry list by exactly one entry, of type work and with
\* duration n.
C3_StartTicksStop ==
    (/\ lastOp = "stopTimer"
     /\ pre.currentSession # Null
     /\ pre.currentSession.type = "work") =>
        /\ Len(timeEntries) = Len(pre.timeEntries) + 1
        /\ SubSeq(timeEntries, 1, Len(pre.timeEntries)) = pre.timeEntries
        /\ timeEntries[Len(timeEntries)].type = "work"
        /\ timeEntries[Len(timeEntries)].duration = pre.ticks

C3_Witness ==
    /\ lastOp = "stopTimer"
    /\ pre.currentSession # Null
    /\ pre.currentSession.type = "work"
    /\ pre.ticks >= 1
    /\ Len(timeEntries) = Len(pre.timeEntries) + 1

\* C4: reset() from Idle, Running or Paused, with any elapsed time, leaves
\* the entry list as it was and the machine Idle with elapsedTime 0.
C4_ResetDiscards ==
    lastOp = "resetTimer" =>
        /\ timeEntries = pre.timeEntries
        /\ Idle(St)
        /\ elapsedTime = 0

C4_Witness ==
    /\ lastOp = "resetTimer"
    /\ Paused(pre)
    /\ pre.elapsedTime > 0
    /\ Idle(St)

\* C5: startBreak() on a Running work session appends exactly that session,
\* finalized with duration = elapsedTime at the call, and makes a new break
\* the current session, Running with elapsedTime 0; startBreak() while Idle
\* appends nothing and creates one break as the current session.
C5_StartBreak ==
    /\ (lastOp = "startBreak" /\ Running(pre)
            /\ pre.currentSession.type = "work") =>
          /\ timeEntries = Append(pre.timeEntries, Finalized(pre, now))
          /\ currentSession = NewEntry("break", now)
          /\ isRunning
          /\ elapsedTime = 0
    /\ (lastOp = "startBreak" /\ Idle(pre)) =>
          /\ timeEntries = pre.timeEntries
          /\ currentSession = NewEntry("break", now)

C5_Witness ==
    /\ lastOp = "startBreak"
    /\ Running(pre)
    /\ pre.currentSession.type = "work"
    /\ pre.elapsedTime > 0
    /\ Len(timeEntries) = Len(pre.timeEntries) + 1

\* C6: when a Running session reaches its target and the matching auto-start
\* flag is off, the completion only stops: exactly one entry is appended and
\* the machine is Idle afterwards.
C6_AutoStopOnly ==
    (\/ AutoCompleted("work") /\ ~settings.autoStartBreaks
     \/ AutoCompleted("break") /\ ~settings.autoStartWork) =>
        /\ timeEntries = Append(pre.timeEntries, Finalized(pre, now))
        /\ Idle(St)

C6_Witness ==
    /\ AutoCompleted("work")
    /\ ~settings.autoStartBreaks
    /\ pre.elapsedTime >= settings.workDuration
    /\ Idle(St)

\* C7: stop() with a current session, Running or Paused, appends at the end
\* of the list exactly one entry, the current session with endTime set and
\* duration = elapsedTime, which is the number of ticks delivered to the
\* session; the machine is Idle afterwards with elapsedTime 0.
C7_StopFinalizes ==
    (lastOp = "stopTimer" /\ pre.currentSession # Null) =>
        /\ timeEntries = Append(pre.timeEntries, Finalized(pre, now))
        /\ timeEntries[Len(timeEntries)].endTime # NullTime
        /\ pre.elapsedTime = pre.ticks
        /\ Idle(St)
        /\ elapsedTime = 0

C7_Witness ==
    /\ lastOp = "stopTimer"
    /\ Paused(pre)
    /\ pre.elapsedTime > 0
    /\ Len(timeEntries) = Len(pre.timeEntries) + 1

\* C8: stop() without a current session changes nothing: entry list, current
\* session, elapsedTime and running flag are as before.
C8_StopIdleNoOp ==
    (lastOp = "stopTimer" /\ pre.currentSession = Null) =>
        /\ timeEntries = pre.timeEntries
        /\ currentSession = pre.currentSession
        /\ elapsedTime = pre.elapsedTime
        /\ isRunning = pre.isRunning

C8_Witness ==
    /\ lastOp = "stopTimer"
    /\ pre.currentSession = Null
    /\ Len(pre.timeEntries) > 0
    /\ timeEntries = pre.timeEntries

\* C9: start() while Paused sets the running flag and leaves the current
\* session, elapsedTime and the entry list as they were; start() while
\* Running changes nothing.
C9_StartResumes ==
    /\ (lastOp = "startTimer" /\ Paused(pre)) =>
          /\ isRunning
          /\ currentSession = pre.currentSession
          /\ elapsedTime = pre.elapsedTime
          /\ timeEntries = pre.timeEntries
    /\ (lastOp = "startTimer" /\ pre.isRunning) =>
          /\ isRunning = pre.isRunning
          /\ currentSession = pre.currentSession
          /\ elapsedTime = pre.elapsedTime
          /\ timeEntries = pre.timeEntries

C9_Witness ==
    /\ lastOp = "startTimer"
    /\ Paused(pre)
    /\ pre.elapsedTime > 0
    /\ pre.currentSession.notes # ""
    /\ isRunning

\* C10: pause() while Running clears the running flag and leaves current
\* session, elapsedTime and entry list as they were, and for as long as the
\* machine stays Paused elapsedTime keeps that value.
C10_PauseRetains ==
    /\ (lastOp = "pauseTimer" /\ Running(pre)) =>
          /\ ~isRunning
          /\ currentSession = pre.currentSession
          /\ elapsedTime = pre.elapsedTime
          /\ timeEntries = pre.timeEntries
    /\ (Paused(pre) /\ Paused(St)) => elapsedTime = pre.elapsedTime

C10_Witness ==
    /\ lastOp = "pauseTimer"
    /\ Running(pre)
    /\ pre.elapsedTime > 0
    /\ Paused(St)
    /\ elapsedTime = pre.elapsedTime

\* the operations that call stopTimer
Stops == {"stopTimer", "startBreak", "autoComplete"}

\* sequence p is an initial part of sequence q
IsPrefix(p, q) == Len(p) <= Len(q) /\ SubSeq(q, 1, Len(p)) = p

C12_CheckedOnEveryTick ==
    /\ (Running(St) /\ lastOp # "updateSettings") =>
          elapsedTime <= targetDuration(St, settings)
    /\ lastOp = "tick" => pre.elapsedTime < targetDuration(pre, settings)
    /\ (lastOp \in Stops /\ pre.currentSession # Null) =>
          timeEntries[Len(timeEntries)].duration
              <= targetDuration(pre, settings)

\* C13: the entry list grows only by a stop (explicit, in startBreak or in
\* the completion effect), and every operation other than clearStatistics
\* leaves the entries saved before it in place, unmodified and in order.
C13_AppendOnly ==
    /\ Len(timeEntries) > Len(pre.timeEntries) => lastOp \in Stops
    /\ lastOp # "clearStatistics" => IsPrefix(pre.timeEntries, timeEntries)

C13_Witness ==
    /\ lastOp = "stopTimer"
    /\ Len(pre.timeEntries) >= 1
    /\ Len(timeEntries) = Len(pre.timeEntries) + 1
    /\ IsPrefix(pre.timeEntries, timeEntries)

\* C14: no two entries of the list share an id, and the id of the current
\* session differs from the id of every entry of the list.
C14_UniqueIds ==
    /\ \A i, j \in 1..Len(timeEntries) :
          i # j => timeEntries[i].id # timeEntries[j].id
    /\ currentSession # Null =>
          \A i \in 1..Len(timeEntries) : timeEntries[i].id # currentSession.id

\* C15 as claimed: every saved entry ends strictly later than it starts.
C15_EndAfterStart ==
    \A i \in 1..Len(timeEntries) :
        timeEntries[i].endTime > timeEntries[i].startTime

\* C15 as amended: every saved entry has an end time, and it is not earlier
\* than the start time; the two are equal when the session is stopped at the
\* clock instant at which it was started.
C15_EndNotBeforeStart ==
    \A i \in 1..Len(timeEntries) :
        /\ timeEntries[i].endTime # NullTime
        /\ timeEntries[i].endTime >= timeEntries[i].startTime

C15_Witness ==
    /\ lastOp = "stopTimer"
    /\ pre.currentSession # Null
    /\ pre.currentSession.startTime = now
    /\ timeEntries[Len(timeEntries)].endTime
           = timeEntries[Len(timeEntries)].startTime

\* C16: addNote replaces only the notes of the current session, leaves the
\* entry list, elapsedTime and the running flag as they were and does nothing
\* without a current session; the notes of saved entries never change.
C16_AddNoteFrame ==
    /\ lastOp = "addNote" =>
          /\ timeEntries = pre.timeEntries
          /\ elapsedTime = pre.elapsedTime
          /\ isRunning = pre.isRunning
          /\ pre.currentSession = Null => currentSession = Null
          /\ pre.currentSession # Null =>
                /\ currentSession # Null
                /\ currentSession.notes \in NoteTexts
                /\ [currentSession EXCEPT !.notes = pre.currentSession.notes]
                      = pre.currentSession
    /\ \A i \in 1..Len(pre.timeEntries) :
          i <= Len(timeEntries) =>
              timeEntries[i].notes = pre.timeEntries[i].notes

C16_Witness ==
    /\ lastOp = "addNote"
    /\ pre.currentSession # Null
    /\ pre.currentSession.notes = ""
    /\ currentSession.notes = "n"
    /\ pre.elapsedTime > 0
    /\ Len(timeEntries) >= 1

\* C17: running implies a current session, the current session has no end
\* time, and every saved entry has one.
C17_Consistent ==
    /\ isRunning => currentSession # Null
    /\ currentSession # Null => currentSession.endTime = NullTime
    /\ \A i \in 1..Len(timeEntries) : timeEntries[i].endTime # NullTime

C17_Witness ==
    /\ lastOp = "resetTimer"
    /\ Running(pre)
    /\ Len(timeEntries) >= 1
    /\ ~isRunning

\* the rows of the daily stats with the greatest work time
MaxRows(rows) ==
    {i \in 1..Len(rows) :
        \A j \in 1..Len(rows) : rows[i].totalWorkTime >= rows[j].totalWorkTime}

FirstOf(S) == CHOOSE i \in S : \A j \in S : i <= j
LastOf(S) == CHOOSE i \in S : \A j \in S : i >= j

\* C18 as claimed: when several days have the same maximal totalWorkTime,
\* mostProductiveDay is the one met first in the newest-first order.
C18_TieKeepsFirst ==
    stats.dailyStats # << >> =>
        stats.mostProductiveDay
            = stats.dailyStats[FirstOf(MaxRows(stats.dailyStats))]

\* C18 as amended: when several days have the same maximal totalWorkTime,
\* mostProductiveDay is the one met last in the newest-first order, the
\* oldest of them.
C18_TieKeepsLast ==
    stats.dailyStats # << >> =>
        stats.mostProductiveDay
            = stats.dailyStats[LastOf(MaxRows(stats.dailyStats))]

C18_Witness ==
    /\ Cardinality(MaxRows(stats.dailyStats)) >= 2
    /\ stats.dailyStats[1].totalWorkTime > 0
    /\ stats.mostProductiveDay.date < stats.dailyStats[1].date

\* C19: mostProductiveDay is null when there are no daily stats, and
\* otherwise a row of the daily stats whose totalWorkTime is at least that
\* of every other row.
C19_MostProductiveIsMax ==
    /\ stats.dailyStats = << >> => stats.mostProductiveDay = Null
    /\ stats.dailyStats # << >> =>
          /\ \E i \in 1..Len(stats.dailyStats) :
                stats.dailyStats[i] = stats.mostProductiveDay
          /\ \A i \in 1..Len(stats.dailyStats) :
                stats.mostProductiveDay.totalWorkTime
                    >= stats.dailyStats[i].totalWorkTime

C19_Witness ==
    /\ Len(stats.dailyStats) = 2
    /\ stats.dailyStats[1].totalWorkTime > stats.dailyStats[2].totalWorkTime
    /\ stats.dailyStats[2].totalWorkTime > 0
    /\ stats.mostProductiveDay = stats.dailyStats[1]

\* C20: after startBreak(), d > 0 ticks and stop(), the statistics for range
\* 'all' with Show Breaks enabled report totalBreakTime >= d, and the row of
\* that day reports totalBreakTime >= d.
C20_BreakCounted ==
    (/\ lastOp = "stopTimer"
     /\ pre.currentSession # Null
     /\ pre.currentSession.type = "break"
     /\ pre.ticks > 0) =>
        LET shown == computeStats(ownEntries(timeEntries), "all", TRUE, now)
            day == formatDate(pre.currentSession.startTime)
        IN  /\ shown.totalBreakTime >= pre.ticks
            /\ \E i \in 1..Len(shown.dailyStats) :
                  /\ shown.dailyStats[i].date = day
                  /\ shown.dailyStats[i].totalBreakTime >= pre.ticks

\* ---------------------------------------- what the statistics are to show
\* the instant at which a time range starts: the latest midnight, the latest
\* midnight of a Sunday and the latest midnight of a first of the month that
\* are not after the instant nowT
IsMidnight(t) == t % InstantsPerDay = 0
Weekday(t) == ((t \div InstantsPerDay) + EpochWeekday) % DaysPerWeek
DayOfMonth(t) == ((t \div InstantsPerDay) % DaysPerMonth) + 1

RangeStart(range, nowT) ==
    IF range = "today"
    THEN CHOOSE t \in (nowT - InstantsPerDay + 1)..nowT : IsMidnight(t)
    ELSE IF range = "week"
    THEN CHOOSE t \in (nowT - DaysPerWeek * InstantsPerDay + 1)..nowT :
             IsMidnight(t) /\ Weekday(t) = 0
    ELSE CHOOSE t \in (nowT - DaysPerMonth * InstantsPerDay + 1)..nowT :
             IsMidnight(t) /\ DayOfMonth(t) = 1

\* the instant an entry started at
StartOf(e) == newDate(e.startTime)

\* the places of the entries of a list that fall in a time range
InRange(entries, range, nowT) ==
    {i \in 1..Len(entries) :
        range # "all" => StartOf(entries[i]) >= RangeStart(range, nowT)}

\* the places of the entries the per-session and per-day display lists hold
Displayed(entries, range, withBreaks, nowT) ==
    {i \in InRange(entries, range, nowT) :
        withBreaks \/ entries[i].type = "work"}

\* the sum of the durations of the entries at the places S
RECURSIVE TotalAt(_, _)
TotalAt(entries, S) ==
    IF S = {} THEN 0
    ELSE LET i == CHOOSE j \in S : TRUE
         IN  entries[i].duration + TotalAt(entries, S \ {i})

\* the places of S whose entry has one of the types
OfTypes(entries, S, types) == {i \in S : entries[i].type \in types}

\* the places of S whose entry started on the calendar date
OnDay(entries, S, date) == {i \in S : StartOf(entries[i]) \div InstantsPerDay = date}

\* C21: totalWorkTime, totalBreakTime, workSessions, shortBreaks and
\* longBreaks are taken over the entries in the time range, with and without
\* Show Breaks: work time from the work entries, break time from the
\* shortBreak and longBreak entries.
C21_TotalsIgnoreBreakFlag ==
    LET own == ownEntries(timeEntries)
        S == InRange(own, timeRange, now)
    IN  \A withBreaks \in BOOLEAN :
            LET shown == computeStats(own, timeRange, withBreaks, now)
            IN  /\ shown.totalWorkTime = TotalAt(own, OfTypes(own, S, {"work"}))
                /\ shown.totalBreakTime
                      = TotalAt(own, OfTypes(own, S, {"shortBreak", "longBreak"}))
                /\ shown.workSessions = Cardinality(OfTypes(own, S, {"work"}))
                /\ shown.shortBreaks
                      = Cardinality(OfTypes(own, S, {"shortBreak"}))
                /\ shown.longBreaks
                      = Cardinality(OfTypes(own, S, {"longBreak"}))

C21_Witness ==
    /\ lastOp = "setShowBreaks"
    /\ ~showBreaks
    /\ timeRange = "today"
    /\ stats.totalWorkTime > 0
    /\ stats.totalBreakTime > 0
    /\ stats.shortBreaks = 1

\* C22: the time-range filter keeps exactly the entries that start at or
\* after the first instant of the range (midnight of today, of the Sunday
\* that starts the week, of the first of the month), the entry that starts
\* at that very instant included, and the range 'all' keeps every entry.
C22_RangeFilter ==
    LET own == ownEntries(timeEntries)
        Kept(e) == timeRange # "all" =>
                       StartOf(e) >= RangeStart(timeRange, now)
    IN  computeStats(own, timeRange, TRUE, now).filteredEntries
            = SelectSeq(own, Kept)

C22_Witness ==
    /\ timeRange = "week"
    /\ Len(timeEntries) = 2
    /\ StartOf(timeEntries[1]) = RangeStart("week", now) - 1
    /\ stats.filteredEntries = <<timeEntries[2]>>
    /\ StartOf(timeEntries[2]) = RangeStart("week", now)
    /\ RangeStart("week", now) < RangeStart("today", now)
    /\ RangeStart("month", now) < RangeStart("week", now)

\* the integer nearest to p / q, the greater one when two are equally near
NearestInteger(p, q) == (2 * p + q) \div (2 * q)

Least(a, b) == IF a <= b THEN a ELSE b
Greatest(a, b) == IF a >= b THEN a ELSE b

\* C25: the score is the piecewise function of W = totalWorkTime and
\* B = totalBreakTime: 0 when both are 0; with ratio = W/B, or 100 when
\* B = 0 < W, it is 100 when 4 <= ratio <= 6, 100 - min(((ratio-6)/4)*100, 50)
\* when ratio > 6 and max((ratio/4)*100, 50) when 0 < ratio < 4, rounded to
\* the nearest integer.  (The ratio is num/den, and the value before
\* rounding is a multiple of 1/den.)
C25_ScoreIsPiecewise ==
    LET W == stats.totalWorkTime
        B == stats.totalBreakTime
        num == IF B > 0 THEN W ELSE 100
        den == IF B > 0 THEN B ELSE 1
    IN  /\ (W = 0 /\ B = 0) => score = 0
        /\ (W > 0 /\ 4 * den <= num /\ num <= 6 * den) => score = 100
        /\ (W > 0 /\ num > 6 * den) =>
              score = NearestInteger(
                          100 * den - Least(25 * (num - 6 * den), 50 * den),
                          den)
        /\ (W > 0 /\ num < 4 * den) =>
              score = NearestInteger(Greatest(25 * num, 50 * den), den)

\* C26: workDuration and breakDuration are positive in every state, whatever
\* is typed into or cleared from the duration inputs before Save Settings.
C26_DurationsPositive ==
    /\ settings.workDuration > 0
    /\ settings.breakDuration > 0

\* C27: update(newSettings) makes newSettings, with the userId of the owner
\* whatever userId it carried, the whole settings record, stores that
\* record under the settings key of the owner, and leaves the entry list,
\* the current session, elapsedTime and the running flag as they were.
C27_UpdateReplaces ==
    lastOp = "updateSettings" =>
        /\ settings = [formState EXCEPT !.userId = UserId]
        /\ settings.userId = UserId
        /\ localStorage.settings = JSONstringify(settings)
        /\ timeEntries = pre.timeEntries
        /\ currentSession = pre.currentSession
        /\ elapsedTime = pre.elapsedTime
        /\ isRunning = pre.isRunning

C27_Witness ==
    /\ lastOp = "updateSettings"
    /\ formState.userId # UserId
    /\ settings.userId = UserId
    /\ settings.workDuration # DefaultSettings.workDuration
    /\ localStorage.settings = JSONstringify(settings)
    /\ Running(St)
    /\ elapsedTime > 0

\* C28: a confirmed clearing of the statistics empties the entry list and
\* the stored entry list of the owner and leaves the settings, the stored
\* settings, the current session, elapsedTime and the running flag as they
\* were; a declined one changes nothing.
C28_ClearFrame ==
    [][/\ lastOp' = "clearStatistics" =>
             /\ timeEntries' = << >>
             /\ localStorage'.timeEntries = JSONstringifyEntries(<< >>)
             /\ localStorage'.settings = localStorage.settings
             /\ UNCHANGED <<settings, currentSession, elapsedTime, isRunning>>
       /\ lastOp' = "clearDeclined" =>
             UNCHANGED <<timeEntries, localStorage, settings, currentSession,
                         elapsedTime, isRunning>>]_vars

C28_Witness ==
    /\ lastOp = "clearStatistics"
    /\ pre.timeEntries # << >>
    /\ timeEntries = << >>
    /\ localStorage.timeEntries = JSONstringifyEntries(<< >>)
    /\ settings # DefaultSettings
    /\ localStorage.settings = JSONstringify(settings)
    /\ currentSession # Null

\* C23: the daily stats have exactly one row for every calendar date on
\* which a displayed entry started; the row's totalWorkTime is the sum of the
\* durations of the displayed work entries of the date, its totalBreakTime
\* that of the displayed shortBreak and longBreak entries, and its sessions
\* the number of the work entries of the date.
C23_RowsOfDisplayList ==
    LET own == ownEntries(timeEntries)
        S == Displayed(own, timeRange, showBreaks, now)
        dates == {StartOf(own[i]) \div InstantsPerDay : i \in S}
        rows == stats.dailyStats
    IN  /\ Len(rows) = Cardinality(dates)
        /\ {rows[k].date : k \in 1..Len(rows)} = dates
        /\ \A k \in 1..Len(rows) :
              LET D == OnDay(own, S, rows[k].date)
              IN  /\ rows[k].totalWorkTime
                        = TotalAt(own, OfTypes(own, D, {"work"}))
                  /\ rows[k].totalBreakTime
                        = TotalAt(own, OfTypes(own, D,
                                               {"shortBreak", "longBreak"}))
                  /\ rows[k].sessions
                        = Cardinality(OfTypes(own, D, {"work"}))

C23_Witness ==
    /\ showBreaks
    /\ Len(stats.dailyStats) = 1
    /\ Len(stats.filteredEntries) = 2
    /\ stats.dailyStats[1].totalBreakTime > 0
    /\ stats.dailyStats[1].sessions = 1

\* C24: the rows of the daily stats are in descending order of their dates,
\* newest day first, in whatever order the entries were appended.
C24_NewestFirst ==
    \A i, j \in 1..Len(stats.dailyStats) :
        i < j => stats.dailyStats[i].date > stats.dailyStats[j].date

C24_Witness ==
    /\ Len(timeEntries) = 2
    /\ StartOf(timeEntries[1]) < StartOf(timeEntries[2])
    /\ Len(stats.dailyStats) = 2
    /\ stats.dailyStats[1].date > stats.dailyStats[2].date

\* C29: loading with an unparseable stored entry list or settings record is
\* treated as absence: the App mounts, with an empty entry list or the
\* default settings.
C29_UnparseableIsAbsent ==
    [][lastOp' = "mount" =>
         /\ DOMAIN localStorage.timeEntries = {"text"} =>
                appStatus' = "mounted" /\ timeEntries' = << >>
         /\ DOMAIN localStorage.settings = {"text"} =>
                appStatus' = "mounted" /\ settings' = DefaultSettings]_vars

\* C30: reloading from the store what the App saved yields an entry list
\* and a settings record equal to the saved ones, startTime and endTime
\* being dates (endTime possibly null) again.
C30_RoundTrip ==
    [][(/\ lastOp' = "mount"
        /\ localStorage.timeEntries = JSONstringifyEntries(timeEntries)
        /\ localStorage.settings = JSONstringify(settings)) =>
         /\ appStatus' = "mounted"
         /\ timeEntries' = timeEntries
         /\ settings' = settings
         /\ \A i \in 1..Len(timeEntries') :
               /\ isDate(timeEntries'[i].startTime)
               /\ timeEntries'[i].endTime = NullTime
                     \/ isDate(timeEntries'[i].endTime)]_vars

\* C31: after every operation, stop, startBreak, auto-completion,
\* clearStatistics, updateSettings and toggleDarkMode among them, the stored
\* entry list is the entry list in memory and the stored settings are the
\* settings in memory, under the keys of the owner.
C31_StoreFollowsState ==
    /\ localStorage.userId = [text |-> UserId]
    /\ localStorage.timeEntries = JSONstringifyEntries(timeEntries)
    /\ localStorage.settings = JSONstringify(settings)

C31_Witness ==
    /\ lastOp = "toggleDarkMode"
    /\ settings.darkMode
    /\ settings.workDuration # DefaultSettings.workDuration
    /\ timeEntries # << >>
    /\ C31_StoreFollowsState

\* C33: runs of the same operations and ticks that differ only in the
\* notifications setting or in the notification permission have the same
\* entry list, current session, elapsedTime and running flag after each step.
C33_NotificationsNoInfluence ==
    \A config \in DOMAIN runs : TimerOf(runs[config]) = St

\* C34: a notification is created only by a completion, that of a running
\* session whose elapsedTime has reached its target, and only with the
\* notifications setting on and the permission granted; the completion ends
\* the session, so that one crossing creates one notification at most; the
\* message tells a completed work session from a completed break.
C34_NotificationOnCompletion ==
    \A config \in DOMAIN runs :
       runs[config].notification # Null =>
          /\ lastOp = "autoComplete"
          /\ pre.currentSession # Null
          /\ pre.isRunning
          /\ pre.elapsedTime >= targetDuration(pre, settings)
          /\ config.notifications
          /\ config.permission = "granted"
          /\ currentSession # pre.currentSession
          /\ currentSession # Null => elapsedTime = 0
          /\ Len(timeEntries) > Len(pre.timeEntries)
          /\ pre.currentSession.type = "work" =>
                runs[config].notification.body
                   = "Work session completed! Time for a break."
          /\ pre.currentSession.type # "work" =>
                runs[config].notification.body
                   = "Break time is over! Ready to work?"

C34_Witness ==
    /\ lastOp = "autoComplete"
    /\ pre.currentSession # Null
    /\ pre.currentSession.type = "break"
    /\ \E config \in DOMAIN runs :
          /\ runs[config].notification # Null
          /\ runs[config].notification.body = "Break time is over! Ready to work?"
    /\ \E config \in DOMAIN runs :
          /\ config.notifications
          /\ config.permission = "denied"
          /\ runs[config].notification = Null

\* C32: saving the Settings form never changes the darkMode value that was
\* in force immediately before the save, whatever toggles and edits came
\* before it.
C32_SaveKeepsDarkMode ==
    [][lastOp' = "updateSettings" =>
          settings'.darkMode = settings.darkMode]_vars

\* C36: startBreak() while Paused, or while a break is the current session,
\* appends that session once, with its own type and duration = the
\* elapsedTime it had, and makes a new break the current session, Running
\* with elapsedTime 0 and empty notes; the new session counts only the ticks
\* delivered to it.
C36_StartBreakEndsSession ==
    /\ (/\ lastOp = "startBreak"
        /\ pre.currentSession # Null
        /\ Paused(pre) \/ pre.currentSession.type = "break") =>
          /\ timeEntries =
                Append(pre.timeEntries,
                       [pre.currentSession EXCEPT !.endTime = now,
                                                  !.duration = pre.elapsedTime])
          /\ timeEntries[Len(timeEntries)].type = pre.currentSession.type
          /\ currentSession = NewEntry("break", now)
          /\ currentSession.notes = ""
          /\ isRunning
          /\ elapsedTime = 0
          /\ ticks = 0
    /\ (currentSession # Null /\ currentSession.type = "break") =>
          elapsedTime = ticks

C36_Witness ==
    /\ lastOp = "startBreak"
    /\ Paused(pre)
    /\ pre.currentSession.type = "break"
    /\ pre.currentSession.notes # ""
    /\ pre.elapsedTime > 0
    /\ Len(timeEntries) = Len(pre.timeEntries) + 1
    /\ timeEntries[Len(timeEntries)].duration = pre.elapsedTime
    /\ Running(St)
    /\ elapsedTime = 0

\* C37: for every W = totalWorkTime and B = totalBreakTime the score is an
\* integer from 0 to 100, it is 0 when W = 0, and at least 50 when W > 0.
C37_ScoreRange ==
    /\ score \in 0..100
    /\ stats.totalWorkTime = 0 => score = 0
    /\ stats.totalWorkTime > 0 => score >= 50

C37_Witness ==
    /\ stats.totalWorkTime > 0
    /\ stats.totalBreakTime > 4 * stats.totalWorkTime
    /\ score = 50

\* the actions that end or interrupt a session by hand
UserEnds == {"pauseTimer", "stopTimer", "resetTimer", "startBreak"}

\* the clock of the model has run out before the session reached its target
ClockOut ==
    /\ now = MaxNow
    /\ currentSession # Null
    /\ elapsedTime < targetDuration(St, settings)

\* C35: a Running session is eventually completed, finalized and appended to
\* the list, unless it is paused, stopped, reset or ended by startBreak
\* (or the clock of the model runs out first).
C35_RunningCompletes ==
    Running(St) ~> (lastOp = "autoComplete" \/ lastOp \in UserEnds \/ ClockOut)

====
